---- MODULE Spec2Model ----
(***************************************************************************)
(* Virtual Sensor Manager (VSM.cpp): two simulated sensor classes, the     *)
(* SensorManager that owns an ordered collection of them, and the driver   *)
(* (main) that samples the manager 20 times into a CSV file and the        *)
(* console.                                                                *)
(*                                                                         *)
(* Numbers.  A double is modelled as a fixed-point integer counted in      *)
(* 1/Unit (20.0 is 20 * Unit).  std::default_random_engine is              *)
(* implementation-defined; it is modelled as libstdc++'s minstd_rand0      *)
(* (x' = 16807 * x mod 2^31 - 1, default seed 1), and                      *)
(* std::uniform_real_distribution<double> as libstdc++ computes it:        *)
(* generate_canonical draws the engine twice and the result is             *)
(* a + (b - a) * u, with u in [0, 1) kept to 1/Resolution.                 *)
(***************************************************************************)
EXTENDS Integers, Sequences, FiniteSets, TLC

\* ------------------------------------------------------------- bounds
\* Fixed-point scale of a double: one unit is 1/Unit.
Unit == 10000
\* Resolution kept of the canonical variate u in [0, 1).
Resolution == 1000
\* A client of the manager registers at most MaxSensors sensors ...
MaxSensors == 3
\* ... and starts a readAll only while at most MaxDraws readValue calls result.
MaxDraws == 6
\* Seconds the wall clock may run ahead of the driver's own sleeps.
MaxJitter == 1

\* ------------------------------------------------- <random> (line 22, 32)
EngineA == 16807
EngineM == 2147483647
EngineQ == 127773
EngineR == 2836
DefaultSeed == 1
EngineMin == 1
EngineMax == EngineM - 1
\* Engine calls of one generate_canonical<double, 53>: max(1, (53 + 30 - 1) \div 30).
CanonicalCalls == 2

\* One call of the engine: x' = EngineA * x mod EngineM, by Schrage's method
\* (EngineM = EngineA * EngineQ + EngineR), which stays below 2^31.
EngineStep(x) ==
    LET t == EngineA * (x % EngineQ) - EngineR * (x \div EngineQ)
    IN  IF t < 0 THEN t + EngineM ELSE t

RECURSIVE EngineSteps(_, _)
EngineSteps(x, n) == IF n = 0 THEN x ELSE EngineSteps(EngineStep(x), n - 1)

\* generate_canonical: the engine is called CanonicalCalls times; the last
\* call is the leading digit of the variate (the earlier one adds less than
\* 1/(EngineMax - EngineMin + 1)).  u is returned as a count of 1/Resolution,
\* truncated: 0 <= u < Resolution.
GenerateCanonical(g) ==
    LET x == EngineSteps(g, CanonicalCalls)
        range == EngineMax - EngineMin + 1
    IN  [gen |-> x, u |-> (x - EngineMin) \div (range \div Resolution + 1)]

\* Fault variant of UniformReal: the variate is rounded up to the next step, so
\* that it reaches 1 and the result reaches b (the interval becomes (a, b]).
UniformReal_Closed(g, a, b) ==
    LET c == GenerateCanonical(g)
    IN  [gen |-> c.gen, val |-> ((b - a) * (c.u + 1)) \div Resolution + a]

\* uniform_real_distribution<double>(a, b)(gen): u * (b - a) + a.
UniformReal(g, a, b) ==
    LET c == GenerateCanonical(g)
    IN  [gen |-> c.gen, val |-> ((b - a) * c.u) \div Resolution + a]

\* ------------------------------------------------------------- sensors
TempA == 20 * Unit
TempB == 30 * Unit
PressA == (9 * Unit) \div 10
PressB == (11 * Unit) \div 10

SensorClasses == {"TemperatureSensor", "PressureSensor"}

\* Fault variants of the two readValue: the class draws from the other class's
\* engine (one engine shared by both variants).
TemperatureSensor_readValue_OtherEngine(gT, gP) ==
    LET r == UniformReal(gP, TempA, TempB)
    IN  [genT |-> gT, genP |-> r.gen, val |-> r.val]

PressureSensor_readValue_OtherEngine(gT, gP) ==
    LET r == UniformReal(gT, PressA, PressB)
    IN  [genT |-> r.gen, genP |-> gP, val |-> r.val]

\* readValue of each class: the engine and the distribution are function-local
\* statics, one pair per class, shared by every instance of the class.
\* gT, gP: the two static engines; the result carries their new states.
TemperatureSensor_readValue(gT, gP) ==
    LET r == UniformReal(gT, TempA, TempB)
    IN  [genT |-> r.gen, genP |-> gP, val |-> r.val]

PressureSensor_readValue(gT, gP) ==
    LET r == UniformReal(gP, PressA, PressB)
    IN  [genT |-> gT, genP |-> r.gen, val |-> r.val]

\* s->readValue(): virtual dispatch on the dynamic class of the sensor.
Sensor_readValue(s, gT, gP) ==
    IF s = "TemperatureSensor" THEN TemperatureSensor_readValue(gT, gP)
    ELSE PressureSensor_readValue(gT, gP)

TemperatureSensor_getType == "Temperature"
PressureSensor_getType == "Pressure"

\* s->getType()
Sensor_getType(s) ==
    IF s = "TemperatureSensor" THEN TemperatureSensor_getType
    ELSE PressureSensor_getType

\* ---------------------------------------------------------------- state
VARIABLES
    sensors,    \* SensorManager::sensors: the classes of the owned sensors, in order
    genT,       \* TemperatureSensor::readValue's static engine
    genP,       \* PressureSensor::readValue's static engine
    mpc,        \* "idle", or "readAll" while a readAll call is running
    idx,        \* readAll: position of the range-for over sensors
    acc,        \* readAll: its local vector `values`
    genT0,      \* history: genT when the running (or last) readAll was entered
    genP0,      \* history: genP when the running (or last) readAll was entered
    values,     \* the caller's `values`: the last result of readAll
    types,      \* the caller's `types`: the last result of getSensorTypes
    rlog,       \* history: every readValue call so far, [inst, val], in call order
    pc,         \* "client" (the manager used by some caller) or main's position
    i,          \* main: loop counter
    time,       \* main: `time`, in seconds
    clock,      \* the wall clock, in seconds since the process started
    fileState,  \* logfile: "none", "open" or "closed"
    fileLines,  \* sensor_data.csv: its complete lines
    console,    \* std::cout: its complete lines
    exitCode    \* -1 while running, then main's return value

mgrVars == <<sensors, genT, genP, mpc, idx, acc, genT0, genP0, values, types, rlog>>
drvVars == <<i, time, clock, fileState, fileLines, console, exitCode>>
vars == <<sensors, genT, genP, mpc, idx, acc, genT0, genP0, values, types, rlog,
          pc, i, time, clock, fileState, fileLines, console, exitCode>>

\* ------------------------------------------------------- SensorManager
\* addSensor: sensors.push_back(std::move(sensor))
addSensor(s) ==
    /\ mpc = "idle"
    /\ sensors' = Append(sensors, s)
    /\ UNCHANGED <<genT, genP, mpc, idx, acc, genT0, genP0, values, types, rlog>>

\* readAll is entered: the local vector is empty, the range-for is at begin().
readAll_Call ==
    /\ mpc = "idle"
    /\ mpc' = "readAll"
    /\ idx' = 1
    /\ acc' = <<>>
    /\ genT0' = genT
    /\ genP0' = genP
    /\ UNCHANGED <<sensors, genT, genP, values, types, rlog>>

\* Fault variant of readAll_Step: a sensor that was read by the previous readAll
\* is not read again, its previous reading is reused.
readAll_Step_Cached ==
    /\ mpc = "readAll"
    /\ idx <= Len(sensors)
    /\ IF idx \in DOMAIN values
       THEN /\ acc' = Append(acc, values[idx])
            /\ UNCHANGED <<genT, genP, rlog>>
       ELSE LET r == Sensor_readValue(sensors[idx], genT, genP)
            IN  /\ genT' = r.genT
                /\ genP' = r.genP
                /\ acc' = Append(acc, r.val)
                /\ rlog' = Append(rlog, [inst |-> idx, val |-> r.val])
    /\ idx' = idx + 1
    /\ UNCHANGED <<sensors, mpc, genT0, genP0, values, types>>
    /\ UNCHANGED <<pc, i, time, clock, fileState, fileLines, console, exitCode>>

\* One iteration of readAll's loop: values.push_back(s->readValue()).
readAll_Step ==
    /\ mpc = "readAll"
    /\ idx <= Len(sensors)
    /\ LET r == Sensor_readValue(sensors[idx], genT, genP)
       IN  /\ genT' = r.genT
           /\ genP' = r.genP
           /\ acc' = Append(acc, r.val)
           /\ rlog' = Append(rlog, [inst |-> idx, val |-> r.val])
    /\ idx' = idx + 1
    /\ UNCHANGED <<sensors, mpc, genT0, genP0, values, types>>
    /\ UNCHANGED <<pc, i, time, clock, fileState, fileLines, console, exitCode>>

\* Fault variant of readAll_Return: the loop is left one sensor early.
readAll_Return_Early ==
    /\ mpc = "readAll"
    /\ idx >= Len(sensors)
    /\ values' = acc
    /\ mpc' = "idle"
    /\ pc' = IF pc = "L88_call" THEN "L89" ELSE pc
    /\ UNCHANGED <<sensors, genT, genP, idx, acc, genT0, genP0, types, rlog>>
    /\ UNCHANGED <<i, time, clock, fileState, fileLines, console, exitCode>>

\* readAll returns its vector to the caller (main resumes after line 88).
readAll_Return ==
    /\ mpc = "readAll"
    /\ idx > Len(sensors)
    /\ values' = acc
    /\ mpc' = "idle"
    /\ pc' = IF pc = "L88_call" THEN "L89" ELSE pc
    /\ UNCHANGED <<sensors, genT, genP, idx, acc, genT0, genP0, types, rlog>>
    /\ UNCHANGED drvVars

\* Fault variants of getSensorTypes: the labels come out in reverse order; the
\* labels are appended to the previous result instead of to a fresh vector.
getSensorTypes_Reversed ==
    /\ mpc = "idle"
    /\ types' = [j \in 1..Len(sensors) |-> Sensor_getType(sensors[Len(sensors) + 1 - j])]
    /\ UNCHANGED <<sensors, genT, genP, mpc, idx, acc, genT0, genP0, values, rlog>>

getSensorTypes_Accumulate ==
    /\ mpc = "idle"
    /\ types' = types \o [j \in 1..Len(sensors) |-> Sensor_getType(sensors[j])]
    /\ UNCHANGED <<sensors, genT, genP, mpc, idx, acc, genT0, genP0, values, rlog>>

\* getSensorTypes: one getType() per sensor, in order.
getSensorTypes ==
    /\ mpc = "idle"
    /\ types' = [j \in 1..Len(sensors) |-> Sensor_getType(sensors[j])]
    /\ UNCHANGED <<sensors, genT, genP, mpc, idx, acc, genT0, genP0, values, rlog>>

\* --------------------------------------------------- a client of the manager
ClientAddSensor ==
    /\ pc = "client"
    /\ Len(sensors) < MaxSensors
    /\ \E s \in SensorClasses : addSensor(s)
    /\ UNCHANGED pc
    /\ UNCHANGED drvVars

ClientReadAll ==
    /\ pc = "client"
    /\ Len(rlog) + Len(sensors) <= MaxDraws
    /\ readAll_Call
    /\ UNCHANGED pc
    /\ UNCHANGED drvVars

ClientGetSensorTypes ==
    /\ pc = "client"
    /\ getSensorTypes
    /\ UNCHANGED pc
    /\ UNCHANGED drvVars

\* ------------------------------------------------------------ the driver
totalSamples == 20
dt == 1
SleepSeconds == 1

\* std::fixed << std::setprecision(2): the value in hundredths, rounded.
Fixed2(v) == (v * 100 + Unit \div 2) \div Unit

\* getTimestamp's strftime("%H:%M:%S") of the clock reading t, as HHMMSS.
getTimestamp(t) ==
    ((t \div 3600) % 24) * 10000 + ((t \div 60) % 60) * 100 + (t % 60)

\* The clock readings a getTimestamp call may see: the clock has run on by
\* 0 or 1 seconds since it was last read, at most MaxJitter ahead of the sleeps.
ClockReadings == {t \in clock..(clock + 1) : t - i * SleepSeconds <= MaxJitter}

Field(x) == [sep |-> FALSE, txt |-> x]
Comma == [sep |-> TRUE, txt |-> ","]

\* "Time(s),Timestamp,Temperature(C),Pressure(bar)\n"
HeaderLine ==
    <<Field("Time(s)"), Comma, Field("Timestamp"), Comma,
      Field("Temperature(C)"), Comma, Field("Pressure(bar)")>>

RECURSIVE RowValues(_)
\* for (double v : values) logfile << "," << v;
RowValues(vs) ==
    IF vs = <<>> THEN <<>>
    ELSE <<Comma, Field(Fixed2(Head(vs)))>> \o RowValues(Tail(vs))

\* Fault variant of RowLine: the timestamp is left out of the row.
RowLine_NoStamp(t, stamp, vs) ==
    <<Field(Fixed2(t * Unit))>> \o RowValues(vs)

\* logfile << time << "," << getTimestamp(); the values; "\n"
RowLine(t, stamp, vs) ==
    <<Field(Fixed2(t * Unit)), Comma, Field(stamp)>> \o RowValues(vs)

\* Number of comma-separated fields of a line.
NumFields(line) == 1 + Cardinality({k \in DOMAIN line : line[k].sep})

\* operator<< on the ofstream: a stream that is not open drops the output.
FileWrite(line) ==
    fileLines' = IF fileState = "open" THEN Append(fileLines, line) ELSE fileLines

\* What values[j] may yield: the element, or anything when j is out of bounds.
Garbage == {0, -1}
ValueAt(vs, j) == IF j \in DOMAIN vs THEN {vs[j]} ELSE Garbage

\* manager.addSensor(std::make_unique<TemperatureSensor>());
main_L75 ==
    /\ pc = "L75"
    /\ addSensor("TemperatureSensor")
    /\ pc' = "L76"
    /\ UNCHANGED drvVars

\* manager.addSensor(std::make_unique<PressureSensor>());
main_L76 ==
    /\ pc = "L76"
    /\ addSensor("PressureSensor")
    /\ pc' = "L78"
    /\ UNCHANGED drvVars

\* std::ofstream logfile("sensor_data.csv"): created or truncated.
main_L78 ==
    /\ pc = "L78"
    /\ fileState' = "open"
    /\ fileLines' = <<>>
    /\ pc' = "L79"
    /\ UNCHANGED mgrVars
    /\ UNCHANGED <<i, time, clock, console, exitCode>>

\* The header line; time, dt and totalSamples are initialised.
main_L79 ==
    /\ pc = "L79"
    /\ FileWrite(HeaderLine)
    /\ time' = 0
    /\ pc' = "L85"
    /\ UNCHANGED mgrVars
    /\ UNCHANGED <<i, clock, fileState, console, exitCode>>

\* std::cout << "Logging sensor data to sensor_data.csv ...\n"; int i = 0;
main_L85 ==
    /\ pc = "L85"
    /\ console' = Append(console, [text |-> "Logging", stamp |-> 0, items |-> <<>>])
    /\ i' = 0
    /\ pc' = "L87"
    /\ UNCHANGED mgrVars
    /\ UNCHANGED <<time, clock, fileState, fileLines, exitCode>>

\* Fault variant of main_L87: the loop condition is i <= totalSamples.
main_L87_OffByOne ==
    /\ pc = "L87"
    /\ pc' = IF i <= totalSamples THEN "L88" ELSE "L108"
    /\ UNCHANGED <<sensors, genT, genP, mpc, idx, acc, genT0, genP0, values, types, rlog>>
    /\ UNCHANGED <<i, time, clock, fileState, fileLines, console, exitCode>>

\* i < totalSamples
main_L87 ==
    /\ pc = "L87"
    /\ pc' = IF i < totalSamples THEN "L88" ELSE "L108"
    /\ UNCHANGED mgrVars
    /\ UNCHANGED drvVars

\* auto values = manager.readAll();
main_L88 ==
    /\ pc = "L88"
    /\ readAll_Call
    /\ pc' = "L88_call"
    /\ UNCHANGED drvVars

\* auto types = manager.getSensorTypes();
main_L89 ==
    /\ pc = "L89"
    /\ getSensorTypes
    /\ pc' = "L91"
    /\ UNCHANGED drvVars

\* The file row: time, timestamp, one value per element of values.
main_L91 ==
    /\ pc = "L91"
    /\ \E t \in ClockReadings :
          /\ clock' = t
          /\ FileWrite(RowLine(time, getTimestamp(t), values))
    /\ pc' = "L99"
    /\ UNCHANGED mgrVars
    /\ UNCHANGED <<i, time, fileState, console, exitCode>>

\* The console line: "[stamp] " then types[j] << ": " << values[j] << "  "
\* for j < types.size().
main_L99 ==
    /\ pc = "L99"
    /\ \E t \in ClockReadings :
          /\ clock' = t
          /\ \E vs \in [DOMAIN types -> UNION {ValueAt(values, j) : j \in DOMAIN types}] :
                /\ \A j \in DOMAIN types : vs[j] \in ValueAt(values, j)
                /\ console' = Append(console,
                      [text |-> "sample", stamp |-> getTimestamp(t),
                       items |-> [j \in DOMAIN types |->
                                     [label |-> types[j], val |-> Fixed2(vs[j])]]])
    /\ pc' = "L104"
    /\ UNCHANGED mgrVars
    /\ UNCHANGED <<i, time, fileState, fileLines, exitCode>>

\* sleep_for(seconds(1)); time += dt; ++i
main_L104 ==
    /\ pc = "L104"
    /\ clock' = clock + SleepSeconds
    /\ time' = time + dt
    /\ i' = i + 1
    /\ pc' = "L87"
    /\ UNCHANGED mgrVars
    /\ UNCHANGED <<fileState, fileLines, console, exitCode>>

\* logfile.close();
main_L108 ==
    /\ pc = "L108"
    /\ fileState' = "closed"
    /\ pc' = "L109"
    /\ UNCHANGED mgrVars
    /\ UNCHANGED <<i, time, clock, fileLines, console, exitCode>>

\* std::cout << "Data logging complete. ..."; return 0;
main_L109 ==
    /\ pc = "L109"
    /\ console' = Append(console, [text |-> "complete", stamp |-> 0, items |-> <<>>])
    /\ exitCode' = 0
    /\ pc' = "done"
    /\ UNCHANGED mgrVars
    /\ UNCHANGED <<i, time, clock, fileState, fileLines>>

\* ------------------------------------------------------- specifications
\* Fault variant of InitManager: the engines are seeded from a source that
\* differs from run to run.
InitManager_RandomSeed ==
    /\ sensors = <<>>
    /\ genT \in {DefaultSeed, 42}
    /\ genP \in {DefaultSeed, 42}
    /\ mpc = "idle"
    /\ idx = 0
    /\ acc = <<>>
    /\ genT0 = genT
    /\ genP0 = genP
    /\ values = <<>>
    /\ types = <<>>
    /\ rlog = <<>>

\* The process has started: no sensor, both engines default-seeded.
InitManager ==
    /\ sensors = <<>>
    /\ genT = DefaultSeed
    /\ genP = DefaultSeed
    /\ mpc = "idle"
    /\ idx = 0
    /\ acc = <<>>
    /\ genT0 = DefaultSeed
    /\ genP0 = DefaultSeed
    /\ values = <<>>
    /\ types = <<>>
    /\ rlog = <<>>

InitDriverVars ==
    /\ i = 0
    /\ time = 0
    /\ clock = 0
    /\ fileState = "none"
    /\ fileLines = <<>>
    /\ console = <<>>
    /\ exitCode = -1

\* Either some caller uses a fresh manager, or main runs.
Init ==
    /\ InitManager
    /\ InitDriverVars
    /\ pc \in {"client", "L75"}

ClientNext ==
    \/ ClientAddSensor
    \/ ClientReadAll
    \/ ClientGetSensorTypes
    \/ readAll_Step
    \/ readAll_Return

MainNext ==
    \/ main_L75
    \/ main_L76
    \/ main_L78
    \/ main_L79
    \/ main_L85
    \/ main_L87
    \/ main_L88
    \/ readAll_Step
    \/ readAll_Return
    \/ main_L89
    \/ main_L91
    \/ main_L99
    \/ main_L104
    \/ main_L108
    \/ main_L109

Next ==
    \/ ClientAddSensor
    \/ ClientReadAll
    \/ ClientGetSensorTypes
    \/ readAll_Step
    \/ readAll_Return
    \/ main_L75
    \/ main_L76
    \/ main_L78
    \/ main_L79
    \/ main_L85
    \/ main_L87
    \/ main_L88
    \/ main_L89
    \/ main_L91
    \/ main_L99
    \/ main_L104
    \/ main_L108
    \/ main_L109

Spec == Init /\ [][Next]_vars

\* main alone; it is the only thread and every statement of it returns.
InitMain == InitManager /\ InitDriverVars /\ pc = "L75"
SpecMain == InitMain /\ [][MainNext]_vars /\ WF_vars(MainNext)

\* A manager used by some caller late in the life of the process: the static
\* engines are in states the engine reaches from the default seed after a whole
\* number of readValue calls (the seed itself; the state whose next variate is
\* the smallest, u = 0; the one whose next variate is the largest).
EngineStates == {DefaultSeed, 1475608308, 2015626017}

InitRange ==
    /\ sensors = <<>>
    /\ genT \in EngineStates
    /\ genP \in EngineStates
    /\ mpc = "idle"
    /\ idx = 0
    /\ acc = <<>>
    /\ genT0 = genT
    /\ genP0 = genP
    /\ values = <<>>
    /\ types = <<>>
    /\ rlog = <<>>
    /\ InitDriverVars
    /\ pc = "client"

SpecRange == InitRange /\ [][ClientNext]_vars

\* ------------------------------------------------------------ properties
Temp == "TemperatureSensor"
Press == "PressureSensor"

\* The label the specification gives each variant.
Label(c) == IF c = Temp THEN "Temperature" ELSE "Pressure"

\* Number of sensors of class c among the sequence ss.
CountClass(ss, c) == Cardinality({k \in DOMAIN ss : ss[k] = c})

\* The readValue calls made so far on sensors of class c, in call order.
ReadsOf(c) == SelectSeq(rlog, LAMBDA e : sensors[e.inst] = c)

\* The engine a sensor of class c draws from.
EngineOf(c, gT, gP) == IF c = Temp THEN gT ELSE gP

\* A step that calls getSensorTypes, addSensor.
GetTypesStep == ClientGetSensorTypes \/ main_L89
AddStep == ClientAddSensor \/ main_L75 \/ main_L76

\* C1: every addSensor call lengthens the sensor sequence by one and nothing
\* else changes it, so its length is the number of sensors added so far; every
\* readAll returns, and every getSensorTypes returns, a sequence of exactly
\* that length; and when the driver prints its console line, values[j] is in
\* bounds for every j < types.size().
C1_LengthIsSensorCount ==
    [][ /\ (AddStep => Len(sensors') = Len(sensors) + 1)
        /\ (~AddStep => sensors' = sensors)
        /\ (readAll_Return => Len(values') = Len(sensors))
        /\ (GetTypesStep => Len(types') = Len(sensors))
        /\ (pc' = "L99" => \A j \in DOMAIN types' : j \in DOMAIN values') ]_vars

\* C1 witness: a client added three sensors, one class twice, and both
\* accessors have returned sequences of length three.
C1_Witness ==
    /\ pc = "client"
    /\ mpc = "idle"
    /\ sensors = <<Temp, Temp, Press>>
    /\ Len(values) = 3
    /\ Len(types) = 3

\* C2: the i-th element of the last readAll result is the reading the i-th
\* registered sensor produced in that call (the calls of one readAll are the
\* last ones made, in registration order), and the i-th element of the last
\* getSensorTypes result is the label of that same i-th sensor.
C2_PositionalCorrespondence ==
    /\ \A j \in DOMAIN types :
          j \in DOMAIN sensors /\ types[j] = Label(sensors[j])
    /\ mpc = "idle" =>
          /\ Len(values) <= Len(rlog)
          /\ \A j \in DOMAIN values :
                LET e == rlog[Len(rlog) - Len(values) + j]
                IN  j \in DOMAIN sensors /\ e.inst = j /\ e.val = values[j]

\* C2 witness: a Pressure sensor registered before two Temperature sensors,
\* all read and all labelled.
C2_Witness ==
    /\ mpc = "idle"
    /\ sensors = <<Press, Temp, Temp>>
    /\ Len(values) = 3
    /\ types = <<"Pressure", "Temperature", "Temperature">>

\* The documented reading intervals, in units of 1/Unit: [20.0, 30.0) and [0.9, 1.1).
InRange(c, v) ==
    IF c = Temp THEN 20 * Unit <= v /\ v < 30 * Unit
    ELSE (9 * Unit) \div 10 <= v /\ v < (11 * Unit) \div 10

\* C3: every reading a TemperatureSensor ever returned lies in [20.0, 30.0)
\* and every reading a PressureSensor ever returned lies in [0.9, 1.1); so
\* does every element of a readAll result, by the class of its sensor.
C3_ReadingsInRange ==
    /\ \A k \in DOMAIN rlog : InRange(sensors[rlog[k].inst], rlog[k].val)
    /\ mpc = "idle" => \A j \in DOMAIN values : InRange(sensors[j], values[j])

\* C3 witness: the manager [TemperatureSensor, PressureSensor] returned the
\* largest Temperature reading the engine yields and the smallest Pressure one.
C3_Witness ==
    /\ mpc = "idle"
    /\ sensors = <<Temp, Press>>
    /\ Len(values) = 2
    /\ values[1] >= 30 * Unit - Unit \div 50
    /\ values[2] = (9 * Unit) \div 10

\* C4: when main has run to completion the file holds exactly 21 lines, the
\* header first, then 20 rows of exactly 4 comma-separated fields each: the
\* elapsed time, a timestamp, and the readings of that sample's readAll in
\* registration order.
C4_FileShape ==
    pc = "done" =>
        /\ Len(fileLines) = 21
        /\ fileLines[1] = HeaderLine
        /\ \A k \in 2..21 :
              /\ NumFields(fileLines[k]) = 4
              /\ Len(fileLines[k]) = 7
              /\ fileLines[k][1].txt = 100 * (k - 2)
              /\ fileLines[k][5].txt = Fixed2(rlog[2 * (k - 2) + 1].val)
              /\ fileLines[k][7].txt = Fixed2(rlog[2 * (k - 2) + 2].val)

\* C4 witness: main has returned and the file is closed.
C4_Witness ==
    /\ pc = "done"
    /\ fileState = "closed"
    /\ Len(fileLines) = 21
    /\ sensors = <<Temp, Press>>

\* C5: a getSensorTypes call made when the previous result still has the
\* length of the sensor sequence (no addSensor since that call: addSensor only
\* lengthens the sequence) returns the same sequence again, however many
\* readValue calls were made in between; every element it returns is the
\* label of its sensor's variant.
C5_GetSensorTypesIdempotent ==
    [][ GetTypesStep =>
          /\ (Len(types) = Len(sensors) => types' = types)
          /\ \A j \in DOMAIN types' : types'[j] = Label(sensors[j]) ]_vars

\* C5 witness: main is past its third getSensorTypes call, with readAll calls
\* between the calls.
C5_Witness ==
    /\ pc = "L91"
    /\ i = 2
    /\ Len(rlog) = 6
    /\ types = <<"Temperature", "Pressure">>

\* C6 as stated: a readValue call on one registered sensor leaves the engine
\* of every other registered sensor unchanged, a second instance of the same
\* variant included.
C6_Original ==
    [][ readAll_Step =>
          \A k \in DOMAIN sensors :
             k # idx => EngineOf(sensors[k], genT', genP') = EngineOf(sensors[k], genT, genP) ]_vars

\* C6 amended: the engine a sensor draws from is changed only by readValue
\* calls on sensors of the same variant.  A readValue call on a sensor of the
\* other variant leaves it unchanged; a call on another instance of the same
\* variant advances it, the engine being shared by all instances of a class;
\* no other operation changes either engine.
C6_EnginePerVariant ==
    [][ /\ readAll_Step =>
             \A k \in DOMAIN sensors :
                IF sensors[k] = sensors[idx]
                THEN EngineOf(sensors[k], genT', genP') # EngineOf(sensors[k], genT, genP)
                ELSE EngineOf(sensors[k], genT', genP') = EngineOf(sensors[k], genT, genP)
        /\ ~readAll_Step => (genT' = genT /\ genP' = genP) ]_vars

\* C6 witness: two TemperatureSensor instances are registered and the second
\* one has been read after the first.
C6_Witness ==
    /\ Len(sensors) >= 2
    /\ sensors[1] = Temp
    /\ sensors[2] = Temp
    /\ \E k \in DOMAIN rlog : rlog[k].inst = 2
    /\ genT # genT0

\* C7: a step that makes no Pressure readValue call leaves the Pressure engine
\* unchanged, whatever Temperature reads it makes, and a step that makes no
\* Temperature readValue call leaves the Temperature engine unchanged.
C7_VariantsIndependent ==
    [][ /\ (Len(ReadsOf(Press)') = Len(ReadsOf(Press)) => genP' = genP)
        /\ (Len(ReadsOf(Temp)') = Len(ReadsOf(Temp)) => genT' = genT)
        /\ (Len(rlog') = Len(rlog) + 1 \/ rlog' = rlog) ]_vars

\* C7 witness: Temperature and Pressure reads have been interleaved.
C7_Witness ==
    /\ sensors = <<Temp, Press, Temp>>
    /\ Len(ReadsOf(Temp)) = 4
    /\ Len(ReadsOf(Press)) = 2

\* C8: while readAll runs the sensor sequence does not change and the j-th
\* iteration calls readValue on the j-th sensor; when it returns, it has made
\* exactly one call per registered sensor, the Temperature engine has advanced
\* by exactly one variate per registered TemperatureSensor and the Pressure
\* engine by one per registered PressureSensor since the call was entered
\* (nothing is cached), and the result is the sequence of those readings;
\* getSensorTypes makes no readValue call and advances no engine.
C8_ReadAllReadsEachOnce ==
    [][ /\ (mpc = "readAll" => sensors' = sensors)
        /\ (readAll_Step =>
              /\ Len(acc) = idx - 1
              /\ rlog' = Append(rlog, [inst |-> idx, val |-> acc'[idx]]))
        /\ (readAll_Return =>
              /\ Len(values') = Len(sensors)
              /\ \A j \in DOMAIN values' :
                    rlog[Len(rlog) - Len(sensors) + j] = [inst |-> j, val |-> values'[j]]
              /\ genT = EngineSteps(genT0, CanonicalCalls * CountClass(sensors, Temp))
              /\ genP = EngineSteps(genP0, CanonicalCalls * CountClass(sensors, Press)))
        /\ (GetTypesStep => genT' = genT /\ genP' = genP /\ rlog' = rlog) ]_vars

\* C8 witness: a second readAll on [Temperature, Temperature, Pressure] has
\* returned.
C8_Witness ==
    /\ mpc = "idle"
    /\ sensors = <<Temp, Temp, Press>>
    /\ Len(values) = 3
    /\ Len(rlog) = 6
    /\ genT = EngineSteps(genT0, 4)

\* C9: main eventually returns 0; it has then made exactly 20 iterations;
\* each iteration makes one readAll call (one readValue per sensor), writes
\* one file row and one console line; the file is closed only after the 20th
\* row and nothing is written to it after the close.
C9_DriverTerminates ==
    /\ <>(pc = "done" /\ exitCode = 0)
    /\ [](pc = "done" => i = 20)
    /\ [](pc = "L104" =>
            /\ Len(rlog) = (i + 1) * Len(sensors)
            /\ Len(fileLines) = i + 2
            /\ Len(console) = i + 2)
    /\ [](fileState = "closed" => Len(fileLines) = 21 /\ i = 20)
    /\ [][fileState = "closed" => fileLines' = fileLines /\ fileState' = "closed"]_vars
    /\ [][exitCode' # -1 => exitCode' = 0]_vars

\* C9 witness: main has returned 0 after 20 iterations.
C9_Witness ==
    /\ pc = "done"
    /\ exitCode = 0
    /\ i = 20
    /\ Len(rlog) = 40

\* The k-th reading of class c in a process whose engines start at the
\* default seed, as a function of k alone.
KthReading(c, k) ==
    LET g == EngineSteps(DefaultSeed, CanonicalCalls * (k - 1))
        x == EngineSteps(g, CanonicalCalls)
        u == (x - 1) \div ((EngineM - 1) \div Resolution + 1)
    IN  IF c = Temp THEN 20 * Unit + (10 * Unit * u) \div Resolution
        ELSE (9 * Unit) \div 10 + (((11 * Unit) \div 10 - (9 * Unit) \div 10) * u) \div Resolution

\* C10: the k-th reading obtained from a variant since the process started is
\* a function of k alone, and so is the state of the variant's engine: the
\* readings depend on nothing but the operations performed.
C10_ReadingsDeterministic ==
    /\ \A c \in SensorClasses :
          \A k \in DOMAIN ReadsOf(c) : ReadsOf(c)[k].val = KthReading(c, k)
    /\ genT = EngineSteps(DefaultSeed, CanonicalCalls * Len(ReadsOf(Temp)))
    /\ genP = EngineSteps(DefaultSeed, CanonicalCalls * Len(ReadsOf(Press)))

\* C10 witness: three Temperature and two Pressure readings have been taken.
C10_Witness ==
    /\ Len(ReadsOf(Temp)) = 3
    /\ Len(ReadsOf(Press)) = 2
    /\ mpc = "idle"

====
